---------------------------- MODULE Spec2Model ----------------------------
(***************************************************************************)
(* Model of crates/move-ts/src/script_function.rs: the script-function     *)
(* and module-wrapper TypeScript generators of move-ts.                    *)
(*                                                                         *)
(* Generated text is a sequence of tokens (strings).  A format string is   *)
(* cut at its placeholders and at its line breaks, so that every           *)
(* interpolated value (a name, a type text, a serializer expression) is a  *)
(* token or run of tokens of its own and a property of the text is stated  *)
(* by reading the text back.  The backquotes of the Rust format strings    *)
(* are left out of the tokens.                                             *)
(***************************************************************************)
EXTENDS Naturals, Sequences, FiniteSets

(***************************************************************************)
(* Bounds of the model.                                                    *)
(***************************************************************************)
MaxArgs == 2
MaxTyArgs == 2
MaxFns == 2

(***************************************************************************)
(* State.  features: the cargo features the crate is built with (read by   *)
(* cfg!).  module: the IDL module handed to the generators.  The *_out     *)
(* variables hold what the latest call of each generator returned and for  *)
(* which script function (fn = 0: not called yet).                         *)
(***************************************************************************)
VARIABLES features, module, payload_out, entry_out, builder_out, module_out

vars == <<features, module, payload_out, entry_out, builder_out, module_out>>

(***************************************************************************)
(* anyhow::Result<String>: a value is either Ok(text) or Err(error).       *)
(***************************************************************************)
Ok(t) == [ok |-> TRUE, text |-> t, err |-> <<>>]
Err(e) == [ok |-> FALSE, text |-> <<>>, err |-> e]

(***************************************************************************)
(* Sequence helpers.                                                       *)
(***************************************************************************)
RECURSIVE Flatten(_)
Flatten(ss) == IF ss = <<>> THEN <<>> ELSE Head(ss) \o Flatten(Tail(ss))

RECURSIVE JoinTexts(_, _)
JoinTexts(ts, sep) ==
    IF ts = <<>> THEN <<>>
    ELSE IF Len(ts) = 1 THEN ts[1]
    ELSE ts[1] \o sep \o JoinTexts(Tail(ts), sep)

RECURSIVE SeqsUpTo(_, _)
SeqsUpTo(S, n) ==
    IF n = 0 THEN {<<>>}
    ELSE LET shorter == SeqsUpTo(S, n - 1)
         IN  shorter \cup
             {Append(s, x) : s \in {t \in shorter : Len(t) = n - 1}, x \in S}

DistinctSeqs(S, n) ==
    {s \in SeqsUpTo(S, n) : \A i, j \in 1..Len(s) : i # j => s[i] # s[j]}

(***************************************************************************)
(* The IDL model (crate move_idl) on a bounded domain.                     *)
(***************************************************************************)
Features == {"address20", "address32"}
FnNames == {"transfer", "swap_coins"}
TyArgNames == {"T", "U", "V"}
DocString == "Moves coins between accounts."
ArgPool ==
    { [name |-> "to", ty |-> "address"],
      [name |-> "amount", ty |-> "u64"],
      [name |-> "ids", ty |-> "vector<u64>"],
      [name |-> "extra", ty |-> "vector<Missing>"] }
ModuleIdValue == [address |-> <<"0", "0", "0", "1">>, name |-> "coin"]

\* Option<String> is a sequence of length at most one.
RichFns ==
    { [name |-> n, doc |-> d, args |-> a, ty_args |-> t] :
        n \in {"swap_coins"}, d \in {<<>>, <<DocString>>},
        a \in DistinctSeqs(ArgPool, MaxArgs),
        t \in DistinctSeqs(TyArgNames, MaxTyArgs) }
SimpleFns ==
    { [name |-> n, doc |-> <<>>, args |-> a, ty_args |-> <<>>] :
        n \in FnNames, a \in {<<>>, <<[name |-> "to", ty |-> "address"]>>} }
Modules ==
    { [module_id |-> ModuleIdValue, script_functions |-> fs] :
        fs \in {<<f>> : f \in RichFns} \cup SeqsUpTo(SimpleFns, MaxFns) }

(***************************************************************************)
(* Collaborators of script_function.rs that live in other files of the     *)
(* crate (format.rs, idl_type.rs, lib.rs) or in libraries (heck,           *)
(* move_core_types).                                                       *)
(***************************************************************************)

\* format::indent and CodeText::indent: every line is shifted by two spaces.
indent(t) ==
    Flatten([i \in 1..Len(t) |->
                IF i = 1 \/ t[i - 1] = "\n" THEN <<"  ", t[i]>> ELSE <<t[i]>>])

\* format::gen_doc_string: the text as a doc comment placed before a declaration.
gen_doc_string(doc) == <<"/**", "\n", " * ">> \o doc \o <<"\n", " */", "\n">>

\* CodeText::new_fields_export(name, body) with .docs(docs), rendered.
CodeText_new_fields_export(name, body, docs) ==
    gen_doc_string(docs) \o <<"export type ">> \o name \o <<" = {", "\n">>
        \o body \o <<"};">>

\* CodeText::append_newline.
append_newline(t) == t \o <<"\n">>

\* The first error of a sequence of results, or the joined texts.
collect_join(rs, sep) ==
    IF \E i \in 1..Len(rs) : ~rs[i].ok
    THEN rs[CHOOSE i \in 1..Len(rs) :
                ~rs[i].ok /\ \A j \in 1..(i - 1) : rs[j].ok]
    ELSE Ok(JoinTexts([i \in 1..Len(rs) |-> rs[i].text], sep))

\* heck: ToPascalCase / ToUpperCamelCase and ToLowerCamelCase on the names used.
to_pascal_case(n) ==
    CASE n = "transfer" -> "Transfer"
      [] n = "swap_coins" -> "SwapCoins"
      [] n = "coin" -> "Coin"
      [] OTHER -> n
to_upper_camel_case(n) == to_pascal_case(n)
to_lower_camel_case(n) ==
    CASE n = "swap_coins" -> "swapCoins"
      [] OTHER -> n

\* move_core_types: ModuleId's Display prints every digit of the address,
\* short_str_lossless prints 0x and the address without its leading zeros.
RECURSIVE TrimLeadingZeros(_)
TrimLeadingZeros(ds) ==
    IF Len(ds) > 1 /\ Head(ds) = "0" THEN TrimLeadingZeros(Tail(ds)) ELSE ds
ModuleId_display(m) == m.address \o <<"::", m.name>>
short_str_lossless(m) == <<"0x">> \o TrimLeadingZeros(m.address) \o <<"::", m.name>>

\* idl_type.rs: the recursive type generator and serializer.
IsVector(ty) == ty \in {"vector<u64>", "vector<Missing>"}
ElemType(ty) == IF ty = "vector<u64>" THEN "u64" ELSE "Missing"

RECURSIVE IDLType_debug(_)
IDLType_debug(ty) ==
    IF IsVector(ty) THEN <<"Vector(">> \o IDLType_debug(ElemType(ty)) \o <<")">>
    ELSE CASE ty = "address" -> <<"Address">>
           [] ty = "u64" -> <<"U64">>
           [] OTHER -> <<"Struct(", ty, ")">>

RECURSIVE IDLType_generate_typescript(_)
IDLType_generate_typescript(ty) ==
    IF IsVector(ty)
    THEN LET e == IDLType_generate_typescript(ElemType(ty))
         IN  IF e.ok THEN Ok(<<"ReadonlyArray<">> \o e.text \o <<">">>) ELSE e
    ELSE CASE ty = "address" -> Ok(<<"address">>)
           [] ty = "u64" -> Ok(<<"string">>)
           [] OTHER -> Err(<<"unresolved struct type: ", ty>>)

generate_idl_type_with_type_args(ty, type_args, flag) ==
    IDLType_generate_typescript(ty)

RECURSIVE serialize_arg(_, _)
serialize_arg(inner, ty) ==
    IF IsVector(ty)
    THEN LET e == serialize_arg(<<"v">>, ElemType(ty))
         IN  IF e.ok THEN Ok(inner \o <<".map((v) => ">> \o e.text \o <<")">>)
             ELSE e
    ELSE CASE ty = "address" -> Ok(inner)
           [] ty = "u64" -> Ok(inner \o <<".toString()">>)
           [] OTHER -> Err(<<"cannot serialize ">> \o inner
                               \o <<": unresolved struct type: ", ty>>)

(***************************************************************************)
(* script_function.rs                                                      *)
(***************************************************************************)

\* ScriptFunctionType::new
ScriptFunctionType_new(mod, script) ==
    [type_name |-> to_pascal_case(script.name), module |-> mod, script |-> script]

\* ScriptFunctionType::doc_link
doc_link(sft) == <<"{@link entry.", sft.script.name, "}">>

\* ScriptFunctionType::name
name(sft) == sft.script.name

\* ScriptFunctionType::full_name
full_name(sft) == ModuleId_display(sft.module.module_id) \o <<"::", sft.script.name>>

\* ScriptFunctionType::payload_args_type_name
payload_args_type_name(sft) == <<sft.type_name, "Args">>

\* Mutant: the type parameters are forgotten.
should_render_args_only(sft) == sft.script.args # <<>>

\* ScriptFunctionType::should_render_payload_struct
should_render_payload_struct(sft) ==
    ~(sft.script.args = <<>> /\ sft.script.ty_args = <<>>)

\* script_fn_type_args
script_fn_type_args(args) ==
    JoinTexts([i \in 1..Len(args) |-> <<args[i], ": string;">>], <<"\n">>)

\* impl Codegen for IDLArgument
IDLArgument_generate_typescript(a) ==
    LET doc == gen_doc_string(<<"IDL type: ">> \o IDLType_debug(a.ty))
        ty == IDLType_generate_typescript(a.ty)
    IN  IF ty.ok THEN Ok(doc \o <<a.name, ": ">> \o ty.text \o <<";">>) ELSE ty

\* CodegenContext::try_join_with_separator over the arguments
try_join_with_separator(items, sep) ==
    collect_join([i \in 1..Len(items) |-> IDLArgument_generate_typescript(items[i])],
                 sep)

\* ScriptFunctionPayloadStruct::args_inline
args_inline(sft) ==
    LET joined == try_join_with_separator(sft.script.args, <<"\n">>)
    IN  IF joined.ok THEN Ok(indent(joined.text)) ELSE joined

\* ScriptFunctionPayloadStruct::type_args_inline
type_args_inline(sft) == indent(script_fn_type_args(sft.script.ty_args))

\* impl Codegen for ScriptFunctionPayloadStruct
ScriptFunctionPayloadStruct_generate_typescript(sft) ==
    LET inline == args_inline(sft)
        args_block ==
            IF sft.script.args = <<>> THEN <<>>
            ELSE indent(<<"args: {", "\n">> \o inline.text \o <<"\n", "};", "\n">>)
                     \o <<"\n">>
        type_args_block ==
            IF sft.script.ty_args = <<>> THEN <<>>
            ELSE indent(<<"typeArgs: {", "\n">> \o type_args_inline(sft)
                            \o <<"\n", "};", "\n">>) \o <<"\n">>
    IN  IF sft.script.args # <<>> /\ ~inline.ok THEN inline
        ELSE Ok(CodeText_new_fields_export(
                    payload_args_type_name(sft),
                    args_block \o type_args_block,
                    <<"Payload arguments for ">> \o doc_link(sft) \o <<".">>))

\* Mutant: an argument whose type fails is skipped instead of failing the call.
entry_arguments_skip_failed(sft) ==
    LET args == sft.script.args
        one(a) == generate_idl_type_with_type_args(a.ty, <<>>, FALSE)
        kept == SelectSeq(args, LAMBDA a : one(a).ok)
    IN  Ok(<<"[">>
           \o JoinTexts([i \in 1..Len(kept) |->
                            <<kept[i].name, ": ">> \o one(kept[i]).text], <<", ">>)
           \o <<"]">>)

\* ScriptFunctionType::generate_entry_payload_struct, lines 100-111
entry_arguments(sft) ==
    LET args == sft.script.args
        one(a) == LET ts_type == generate_idl_type_with_type_args(a.ty, <<>>, FALSE)
                  IN  IF ts_type.ok THEN Ok(<<a.name, ": ">> \o ts_type.text)
                      ELSE ts_type
        joined == collect_join([i \in 1..Len(args) |-> one(args[i])], <<", ">>)
    IN  IF joined.ok THEN Ok(<<"[">> \o joined.text \o <<"]">>) ELSE joined

\* ScriptFunctionType::generate_entry_payload_struct, lines 112-120
entry_type_arguments(sft) ==
    LET tys == sft.script.ty_args
    IN  <<"[">> \o JoinTexts([i \in 1..Len(tys) |-> <<tys[i], ": string">>], <<", ">>)
            \o <<"]">>

\* Mutant: the IDL's doc string is left out of the docs.
generate_entry_payload_struct_no_doc(sft) ==
    LET arguments == entry_arguments(sft)
        fields ==
            JoinTexts(
                << <<"readonly type: ", "\"script_function_payload\"", ";">>,
                   <<"readonly function: \"">> \o full_name(sft) \o <<"\";">>,
                   <<"readonly arguments: ">> \o arguments.text \o <<";">>,
                   <<"readonly type_arguments: ">> \o entry_type_arguments(sft)
                       \o <<";">> >>,
                <<"\n">>)
        docs == <<"Script function payload for ">> \o full_name(sft) \o <<".">>
    IN  IF ~arguments.ok THEN arguments
        ELSE Ok(CodeText_new_fields_export(<<sft.type_name>>,
                                           append_newline(indent(fields)), docs))

\* ScriptFunctionType::generate_entry_payload_struct
generate_entry_payload_struct(sft) ==
    LET arguments == entry_arguments(sft)
        fields ==
            JoinTexts(
                << <<"readonly type: ", "\"script_function_payload\"", ";">>,
                   <<"readonly function: \"">> \o full_name(sft) \o <<"\";">>,
                   <<"readonly arguments: ">> \o arguments.text \o <<";">>,
                   <<"readonly type_arguments: ">> \o entry_type_arguments(sft)
                       \o <<";">> >>,
                <<"\n">>)
        docs ==
            <<"Script function payload for ">> \o full_name(sft) \o <<".">>
                \o (IF sft.script.doc = <<>> THEN <<>>
                    ELSE <<"\n\n", sft.script.doc[1]>>)
    IN  IF ~arguments.ok THEN arguments
        ELSE Ok(CodeText_new_fields_export(<<sft.type_name>>,
                                           append_newline(indent(fields)), docs))

\* ScriptFunctionType::doc
doc(sft) == sft.script.doc

\* impl Codegen for ScriptFunctionType, lines 171-175
builder_function(sft) ==
    short_str_lossless(sft.module.module_id) \o <<"::", sft.script.name>>

\* Mutant: the type arguments are read from args instead of typeArgs.
builder_type_arguments_from_args(sft) ==
    LET tys == sft.script.ty_args
    IN  <<"[">> \o JoinTexts([i \in 1..Len(tys) |-> <<"args.", tys[i]>>], <<", ">>)
            \o <<"]">>

\* impl Codegen for ScriptFunctionType, lines 176-184
builder_type_arguments(sft) ==
    LET tys == sft.script.ty_args
    IN  <<"[">> \o JoinTexts([i \in 1..Len(tys) |-> <<"typeArgs.", tys[i]>>], <<", ">>)
            \o <<"]">>

\* Mutant: the serialized arguments are collected in reverse.
builder_arguments_reversed(sft) ==
    LET args == sft.script.args
        n == Len(args)
        joined == collect_join(
                      [i \in 1..n |->
                          serialize_arg(<<"args.", args[n + 1 - i].name>>,
                                        args[n + 1 - i].ty)],
                      <<", ">>)
    IN  IF joined.ok THEN Ok(<<"[">> \o joined.text \o <<"]">>) ELSE joined

\* impl Codegen for ScriptFunctionType, lines 185-196
builder_arguments(sft) ==
    LET args == sft.script.args
        joined == collect_join(
                      [i \in 1..Len(args) |->
                          serialize_arg(<<"args.", args[i].name>>, args[i].ty)],
                      <<", ">>)
    IN  IF joined.ok THEN Ok(<<"[">> \o joined.text \o <<"]">>) ELSE joined

\* impl Codegen for ScriptFunctionType, lines 211-234
builder_params(sft) ==
    IF should_render_payload_struct(sft)
    THEN <<"{ ">>
         \o JoinTexts(
                (IF sft.script.args = <<>> THEN <<>> ELSE << <<"args">> >>)
                \o (IF sft.script.ty_args = <<>> THEN <<>> ELSE << <<"typeArgs">> >>),
                <<", ">>)
         \o <<" }: mod.">> \o payload_args_type_name(sft)
    ELSE <<>>

\* Mutant: the record lists arguments before type_arguments, as the entry
\* payload type does.
ScriptFunctionType_generate_typescript_args_first(sft) ==
    LET arguments == builder_arguments(sft)
    IN  IF ~arguments.ok THEN arguments
        ELSE Ok((IF sft.script.doc = <<>> THEN <<>>
                 ELSE gen_doc_string(<<sft.script.doc[1]>>))
                \o <<"export const ", sft.script.name, " = (">>
                \o builder_params(sft)
                \o <<"): payloads.", sft.type_name, " => ({", "\n">>
                \o <<"  type: ", "\"script_function_payload\"", ",", "\n">>
                \o <<"  function: \"">> \o builder_function(sft) \o <<"\",", "\n">>
                \o <<"  arguments: ">> \o arguments.text \o <<",", "\n">>
                \o <<"  type_arguments: ">> \o builder_type_arguments(sft)
                \o <<",", "\n">>
                \o <<"});">>)

\* impl Codegen for ScriptFunctionType
ScriptFunctionType_generate_typescript(sft) ==
    LET arguments == builder_arguments(sft)
    IN  IF ~arguments.ok THEN arguments
        ELSE Ok((IF sft.script.doc = <<>> THEN <<>>
                 ELSE gen_doc_string(<<sft.script.doc[1]>>))
                \o <<"export const ", sft.script.name, " = (">>
                \o builder_params(sft)
                \o <<"): payloads.", sft.type_name, " => ({", "\n">>
                \o <<"  type: ", "\"script_function_payload\"", ",", "\n">>
                \o <<"  function: \"">> \o builder_function(sft) \o <<"\",", "\n">>
                \o <<"  type_arguments: ">> \o builder_type_arguments(sft)
                \o <<",", "\n">>
                \o <<"  arguments: ">> \o arguments.text \o <<",", "\n">>
                \o <<"});">>)

(***************************************************************************)
(* impl Codegen for Vec<ScriptFunctionType>: the literal parts of the two  *)
(* wrapper classes.                                                        *)
(***************************************************************************)
AptosPrelude ==
    "\ntype TransactionPayload = {\n\ttype: string;\n  function: string;\n  arguments: unknown[];\n  type_arguments: string[];\n}\n\nexport class "
AptosClassOpen ==
    "AptosModule {\n\tconstructor(private readonly client: AptosClient, private readonly account: AptosAccount) {}\n\t"
AptosMethodOpen == "\n\tasync "
AptosMethodSend == ") {\n\t\treturn this.sendTransaction("
AptosMethodClose == "));\n\t}"
AptosClassClose ==
    "\n\n\tprivate async sendTransaction(payload: TransactionPayload) {\n    const txnRequest = await this.client.generateTransaction(\n      this.account.address(),\n      this.transformTxnPayload(payload)\n    );\n\n    const signedTxn = await this.client.signTransaction(this.account, txnRequest);\n    const txnResponse = await this.client.submitTransaction(signedTxn);\n\n    return {\n      ...txnResponse,\n      wait: async () => {\n        return this.client.waitForTransaction(txnResponse.hash);\n      },\n    };\n  }\n\n  private transformTxnPayload(payload: TransactionPayload): Types.TransactionPayload {\n    const [moduleAddress, moduleName, functionName] = payload.function.split(\"::\");\n    return {\n      ...payload,\n      function: {\n        name: functionName,\n        module: { address: moduleAddress, name: moduleName },\n      },\n    };\n  }\n}"
SuiPrelude ==
    "\ntype SuiCallOverrides = {\n\tgasBudget?: number;\n\tgasPayment?: ObjectId;\n};\n\nexport class "
SuiClassOpen ==
    "SuiModule {\nprivate readonly defaultGasBudget = 1000;\n\nconstructor(private readonly signer: RawSigner) {}\n\n"
SuiMethodOpen == "\nasync "
SuiMethodPayload == ", overrides: SuiCallOverrides) {\n\tconst payload = "
SuiMethodExecute ==
    ");\n\n\treturn this.signer.executeMoveCall({\n\t\t\tmodule: mod.NAME,\n\t\t\tpackageObjectId: mod.ADDRESS,\n\t\t\tfunction: \""
SuiMethodClose ==
    "\",\n\t\t\ttypeArguments: payload.type_arguments,\n\t\t\targuments: payload.arguments,\n\t\t\tgasBudget: overrides?.gasBudget ?? this.defaultGasBudget,\n\t\t\t...overrides,\n\t})\n}"
SuiClassClose == "\n}"

\* cfg!(feature = "..."), in a build with the features fs
cfg(fs, feature) == feature \in fs

\* lines 299-314: one Aptos wrapper method
aptos_method(script_fn) ==
    LET fn_name == name(script_fn)
    IN  <<AptosMethodOpen, to_lower_camel_case(fn_name), "(", "args: mod.">>
            \o payload_args_type_name(script_fn)
            \o <<AptosMethodSend, fn_name, "(", "args", AptosMethodClose>>

\* lines 257-315
aptos_module(v, module_name) ==
    <<AptosPrelude, module_name, AptosClassOpen>>
        \o Flatten([i \in 1..Len(v) |-> aptos_method(v[i])])
        \o <<AptosClassClose>>

\* Mutant: the method is named by the function's name as it is.
sui_method_raw_name(script_fn) ==
    LET fn_name == name(script_fn)
    IN  <<SuiMethodOpen, fn_name, "(", "args: mod.">>
            \o payload_args_type_name(script_fn)
            \o <<SuiMethodPayload, fn_name, "(", "args", SuiMethodExecute, fn_name,
                 SuiMethodClose>>

\* lines 332-358: one Sui wrapper method
sui_method(script_fn) ==
    LET fn_name == name(script_fn)
    IN  <<SuiMethodOpen, to_lower_camel_case(fn_name), "(", "args: mod.">>
            \o payload_args_type_name(script_fn)
            \o <<SuiMethodPayload, fn_name, "(", "args", SuiMethodExecute, fn_name,
                 SuiMethodClose>>

\* lines 317-359
sui_module(v, module_name) ==
    <<SuiPrelude, module_name, SuiClassOpen>>
        \o Flatten([i \in 1..Len(v) |-> sui_method(v[i])])
        \o <<SuiClassClose>>

\* Mutant: the two feature tests are independent, so both classes can be emitted.
select_module_both(fs, sui, aptos) ==
    (IF cfg(fs, "address20") THEN sui \o <<"\n">> ELSE <<>>)
        \o (IF cfg(fs, "address32") THEN aptos \o <<"\n">> ELSE <<>>)

\* lines 361-367: the wrapper the build's features select
select_module(fs, sui, aptos) ==
    IF cfg(fs, "address20") THEN sui \o <<"\n">>
    ELSE IF cfg(fs, "address32") THEN aptos \o <<"\n">>
    ELSE <<>>

\* impl Codegen for Vec<ScriptFunctionType>, in a build with the features fs
Vec_generate_typescript(fs, v) ==
    IF Len(v) = 0 THEN Ok(<<>>)
    ELSE LET module_name == to_upper_camel_case(v[1].module.module_id.name)
         IN  Ok(select_module(fs, sui_module(v, module_name),
                              aptos_module(v, module_name)))

(***************************************************************************)
(* The state machine: the generators applied to a module of the IDL.       *)
(***************************************************************************)
NotCalled == [fn |-> 0, res |-> Ok(<<>>)]

\* The Vec<ScriptFunctionType> of the module, in the IDL's order.
script_fns ==
    [i \in 1..Len(module.script_functions) |->
        ScriptFunctionType_new(module, module.script_functions[i])]

Init ==
    /\ features \in SUBSET Features
    /\ module \in Modules
    /\ payload_out = NotCalled
    /\ entry_out = NotCalled
    /\ builder_out = NotCalled
    /\ module_out = NotCalled

\* script_fn.payload().generate_typescript(ctx)
GeneratePayloadStruct(i) ==
    /\ payload_out' =
           [fn |-> i, res |-> ScriptFunctionPayloadStruct_generate_typescript(script_fns[i])]
    /\ UNCHANGED <<features, module, entry_out, builder_out, module_out>>

\* script_fn.generate_entry_payload_struct(ctx)
GenerateEntryPayloadStruct(i) ==
    /\ entry_out' = [fn |-> i, res |-> generate_entry_payload_struct(script_fns[i])]
    /\ UNCHANGED <<features, module, payload_out, builder_out, module_out>>

\* script_fn.generate_typescript(ctx)
GenerateScriptFunction(i) ==
    /\ builder_out' =
           [fn |-> i, res |-> ScriptFunctionType_generate_typescript(script_fns[i])]
    /\ UNCHANGED <<features, module, payload_out, entry_out, module_out>>

\* script_fns.generate_typescript(ctx); fn = 1 records that the call was made
GenerateModule ==
    /\ module_out' = [fn |-> 1, res |-> Vec_generate_typescript(features, script_fns)]
    /\ UNCHANGED <<features, module, payload_out, entry_out, builder_out>>

\* The crate is built with one feature switched and every generator that has
\* run is run again on the same module.
Rebuild(f) ==
    LET fs == IF f \in features THEN features \ {f} ELSE features \cup {f}
    IN  /\ features' = fs
        /\ payload_out' =
               IF payload_out.fn = 0 THEN payload_out
               ELSE [payload_out EXCEPT
                        !.res = ScriptFunctionPayloadStruct_generate_typescript(
                                    script_fns[payload_out.fn])]
        /\ entry_out' =
               IF entry_out.fn = 0 THEN entry_out
               ELSE [entry_out EXCEPT
                        !.res = generate_entry_payload_struct(script_fns[entry_out.fn])]
        /\ builder_out' =
               IF builder_out.fn = 0 THEN builder_out
               ELSE [builder_out EXCEPT
                        !.res = ScriptFunctionType_generate_typescript(
                                    script_fns[builder_out.fn])]
        /\ module_out' =
               IF module_out.fn = 0 THEN module_out
               ELSE [module_out EXCEPT !.res = Vec_generate_typescript(fs, script_fns)]
        /\ UNCHANGED module

Next ==
    \/ \E i \in 1..Len(module.script_functions) : GeneratePayloadStruct(i)
    \/ \E i \in 1..Len(module.script_functions) : GenerateEntryPayloadStruct(i)
    \/ \E i \in 1..Len(module.script_functions) : GenerateScriptFunction(i)
    \/ GenerateModule
    \/ \E f \in Features : Rebuild(f)

Spec == Init /\ [][Next]_vars

(***************************************************************************)
(* Reading generated text back.                                            *)
(***************************************************************************)
Has(t, tok) == \E i \in 1..Len(t) : t[i] = tok
Count(t, tok) == Cardinality({i \in 1..Len(t) : t[i] = tok})
IndexOf(t, tok) ==
    IF Has(t, tok) THEN CHOOSE i \in 1..Len(t) : t[i] = tok /\ \A j \in 1..(i - 1) : t[j] # tok
    ELSE 0
\* the text after the first tok (empty when tok is absent)
After(t, tok) ==
    IF Has(t, tok) THEN SubSeq(t, IndexOf(t, tok) + 1, Len(t)) ELSE <<>>
\* the text before the first tok (all of it when tok is absent)
Before(t, tok) ==
    IF Has(t, tok) THEN SubSeq(t, 1, IndexOf(t, tok) - 1) ELSE t
Between(t, from, to) == Before(After(t, from), to)
Positions(t, toks) ==
    SelectSeq([i \in 1..Len(t) |-> i], LAMBDA i : t[i] \in toks)
\* the tokens that directly follow / precede an occurrence of a token of toks
Following(t, toks) ==
    LET at == Positions(t, toks)
    IN  [k \in 1..Len(at) |-> IF at[k] < Len(t) THEN t[at[k] + 1] ELSE ""]
Preceding(t, toks) ==
    LET at == Positions(t, toks)
    IN  [k \in 1..Len(at) |-> IF at[k] > 1 THEN t[at[k] - 1] ELSE ""]
\* the k-th piece of t that starts at a token of toks and ends before the next
Piece(t, toks, k) ==
    LET at == Positions(t, toks)
    IN  SubSeq(t, at[k], IF k < Len(at) THEN at[k + 1] - 1 ELSE Len(t))

IdlFn(out) == module.script_functions[out.fn]
ArgNames(f) == [i \in 1..Len(f.args) |-> f.args[i].name]
\* an argument whose type the type generator or the serializer rejects
Unresolvable(a) ==
    \/ ~IDLType_generate_typescript(a.ty).ok
    \/ ~serialize_arg(<<"args.", a.name>>, a.ty).ok
HasUnresolvable(f) == \E i \in 1..Len(f.args) : Unresolvable(f.args[i])

\* parts of a generated payload-args type
ArgsBlock(t) == IF Has(t, "args: {") THEN Between(t, "args: {", "};") ELSE <<>>
TypeArgsBlock(t) ==
    IF Has(t, "typeArgs: {") THEN Between(t, "typeArgs: {", "};") ELSE <<>>
\* parts of a generated builder
BuilderName(t) == Following(t, {"export const "})
BuilderParams(t) == Between(t, " = (", "): payloads.")
BuilderRecord(t) == Between(t, " => ({", "});")
BuilderTypeArguments(t) == Between(t, "  type_arguments: ", "  arguments: ")
BuilderArguments(t) == After(BuilderRecord(t), "  arguments: ")
RecordKeys == {"  type: ", "  function: \"", "  type_arguments: ", "  arguments: "}
\* parts of a generated entry payload type
EntryArguments(t) == Between(t, "readonly arguments: ", "readonly type_arguments: ")
\* parts of a generated wrapper class
AptosLiterals ==
    {AptosPrelude, AptosClassOpen, AptosMethodOpen, AptosMethodSend, AptosMethodClose,
     AptosClassClose}
SuiLiterals ==
    {SuiPrelude, SuiClassOpen, SuiMethodOpen, SuiMethodPayload, SuiMethodExecute,
     SuiMethodClose, SuiClassClose}
HasAptosText(t) == \E i \in 1..Len(t) : t[i] \in AptosLiterals
HasSuiText(t) == \E i \in 1..Len(t) : t[i] \in SuiLiterals
IsAptosClass(t) ==
    /\ Len(t) >= 4 /\ t[1] = AptosPrelude /\ t[3] = AptosClassOpen
    /\ t[Len(t) - 1] = AptosClassClose /\ t[Len(t)] = "\n"
IsSuiClass(t) ==
    /\ Len(t) >= 4 /\ t[1] = SuiPrelude /\ t[3] = SuiClassOpen
    /\ t[Len(t) - 1] = SuiClassClose /\ t[Len(t)] = "\n"
MethodOpens == {AptosMethodOpen, SuiMethodOpen}

(***************************************************************************)
(* C1.  A payload-args type is needed (should_render_payload_struct) iff   *)
(* the function has at least one argument or at least one type parameter.  *)
(* The builder is emitted for every function whose arguments all           *)
(* serialize; its parameter list is empty exactly when the function has    *)
(* no argument and no type parameter, and otherwise destructures one       *)
(* parameter of the function's payload-args type.                          *)
(***************************************************************************)
C1_PayloadNeededIffArgsOrTypeParams ==
    /\ \A i \in 1..Len(script_fns) :
          should_render_payload_struct(script_fns[i])
              <=> (Len(module.script_functions[i].args) >= 1
                     \/ Len(module.script_functions[i].ty_args) >= 1)
    /\ builder_out.fn # 0 =>
          LET f == IdlFn(builder_out)
              t == builder_out.res.text
              params == BuilderParams(t)
          IN  /\ builder_out.res.ok <=> ~HasUnresolvable(f)
              /\ builder_out.res.ok =>
                    /\ BuilderName(t) = <<f.name>>
                    /\ params = <<>> <=> (f.args = <<>> /\ f.ty_args = <<>>)
                    /\ params # <<>> =>
                          /\ Head(params) = "{ "
                          /\ Count(params, " }: mod.") = 1
                          /\ After(params, " }: mod.")
                                 = <<to_pascal_case(f.name), "Args">>
                          /\ Has(params, "args") <=> f.args # <<>>
                          /\ Has(params, "typeArgs") <=> f.ty_args # <<>>

\* a builder was emitted for a function with no argument and no type parameter
C1_Witness ==
    /\ builder_out.fn # 0
    /\ builder_out.res.ok
    /\ IdlFn(builder_out).args = <<>>
    /\ IdlFn(builder_out).ty_args = <<>>
    /\ ~should_render_payload_struct(script_fns[builder_out.fn])
    /\ BuilderParams(builder_out.res.text) = <<>>

(***************************************************************************)
(* C2.  The fields of the payload-args type's args block, the elements of  *)
(* the builder's arguments array and the elements of the entry payload     *)
(* type's arguments tuple are the IDL's arguments, each once, in the IDL's *)
(* order.                                                                  *)
(***************************************************************************)
C2_ArgumentOrderPreserved ==
    /\ (payload_out.fn # 0 /\ payload_out.res.ok) =>
          Preceding(ArgsBlock(payload_out.res.text), {": "})
              = ArgNames(IdlFn(payload_out))
    /\ (builder_out.fn # 0 /\ builder_out.res.ok) =>
          LET seg == BuilderArguments(builder_out.res.text)
              n == Len(IdlFn(builder_out).args)
          IN  /\ Following(seg, {"args."}) = ArgNames(IdlFn(builder_out))
              /\ Count(seg, ", ") = IF n = 0 THEN 0 ELSE n - 1
              /\ n = 0 => seg = <<"[", "]", ",", "\n">>
    /\ (entry_out.fn # 0 /\ entry_out.res.ok) =>
          LET seg == EntryArguments(entry_out.res.text)
              n == Len(IdlFn(entry_out).args)
          IN  /\ Preceding(seg, {": "}) = ArgNames(IdlFn(entry_out))
              /\ Count(seg, ", ") = IF n = 0 THEN 0 ELSE n - 1

\* the three texts were generated for one function with two arguments
C2_Witness ==
    /\ payload_out.fn # 0 /\ payload_out.res.ok
    /\ builder_out.fn = payload_out.fn /\ builder_out.res.ok
    /\ entry_out.fn = payload_out.fn /\ entry_out.res.ok
    /\ Len(IdlFn(payload_out).args) = 2
    /\ Following(BuilderArguments(builder_out.res.text), {"args."})
           = ArgNames(IdlFn(builder_out))

(***************************************************************************)
(* C3.  The record a builder returns has exactly four fields, in this      *)
(* order: type, the literal "script_function_payload"; function, the       *)
(* module id followed by :: and the function's name; type_arguments, the   *)
(* type-argument references in order; arguments, the serialized argument   *)
(* expressions in order.                                                   *)
(***************************************************************************)
C3_BuilderRecordShape ==
    (builder_out.fn # 0 /\ builder_out.res.ok) =>
        LET f == IdlFn(builder_out)
            rec == BuilderRecord(builder_out.res.text)
        IN  /\ SelectSeq(rec, LAMBDA tok : tok \in RecordKeys)
                   = <<"  type: ", "  function: \"", "  type_arguments: ",
                       "  arguments: ">>
            /\ Count(rec, "\n") = 5
            /\ Between(rec, "  type: ", "\n") = <<"\"script_function_payload\"", ",">>
            /\ Between(rec, "  function: \"", "\",")
                   = short_str_lossless(module.module_id) \o <<"::", f.name>>
            /\ Following(Between(rec, "  type_arguments: ", "\n"), {"typeArgs."})
                   = f.ty_args
            /\ Following(After(rec, "  arguments: "), {"args."}) = ArgNames(f)

\* a builder was emitted for a function with arguments and type parameters
C3_Witness ==
    /\ builder_out.fn # 0 /\ builder_out.res.ok
    /\ Len(IdlFn(builder_out).args) = 2
    /\ Len(IdlFn(builder_out).ty_args) >= 1
    /\ Has(builder_out.res.text, "  arguments: ")

(***************************************************************************)
(* C5.  With type parameters T1..Tk (k >= 1) the payload-args type has a   *)
(* typeArgs block with exactly one field Ti: string per type parameter in  *)
(* the IDL's order, and the builder's type_arguments array has exactly k   *)
(* elements, the i-th being typeArgs.Ti.  With k = 0 there is no typeArgs  *)
(* block and type_arguments is the empty array.                            *)
(***************************************************************************)
C5_TypeArgsBlockAndArray ==
    /\ (payload_out.fn # 0 /\ payload_out.res.ok) =>
          LET tys == IdlFn(payload_out).ty_args
              t == payload_out.res.text
              block == TypeArgsBlock(t)
          IN  /\ Has(t, "typeArgs: {") <=> Len(tys) >= 1
              /\ Count(t, "typeArgs: {") <= 1
              /\ Preceding(block, {": string;"}) = tys
              /\ SelectSeq(block, LAMBDA tok : tok \notin {"\n", "  "})
                     = Flatten([i \in 1..Len(tys) |-> <<tys[i], ": string;">>])
    /\ (builder_out.fn # 0 /\ builder_out.res.ok) =>
          LET tys == IdlFn(builder_out).ty_args
              seg == BuilderTypeArguments(builder_out.res.text)
          IN  seg = <<"[">>
                    \o JoinTexts([i \in 1..Len(tys) |-> <<"typeArgs.", tys[i]>>],
                                 <<", ">>)
                    \o <<"]", ",", "\n">>

\* payload-args type and builder of one function with two type parameters
C5_Witness ==
    /\ payload_out.fn # 0 /\ payload_out.res.ok
    /\ builder_out.fn = payload_out.fn /\ builder_out.res.ok
    /\ Len(IdlFn(payload_out).ty_args) = 2
    /\ Has(payload_out.res.text, "typeArgs: {")
    /\ Has(builder_out.res.text, "typeArgs.")

(***************************************************************************)
(* C4.  As claimed: with address20 selected the wrapper text holds the Sui *)
(* class and nothing of the Aptos class, with address32 selected it holds  *)
(* the Aptos class and nothing of the Sui class, with neither it is empty. *)
(* (A selector value is one feature, or none.)  This fails for a module    *)
(* without script functions, whose wrapper text is empty under every       *)
(* selector.                                                               *)
(***************************************************************************)
C4_Original ==
    module_out.fn # 0 =>
        LET t == module_out.res.text
        IN  /\ features = {"address20"} => HasSuiText(t) /\ ~HasAptosText(t)
            /\ features = {"address32"} => HasAptosText(t) /\ ~HasSuiText(t)
            /\ features = {} => t = <<>>

\* C4, the wrapper text under each choice of features
C4_WrapperBySelector ==
    module_out.fn # 0 =>
        LET t == module_out.res.text
            m == Len(module.script_functions)
        IN  /\ module_out.res.ok
            /\ (m = 0 \/ features = {}) => t = <<>>
            /\ (m >= 1 /\ "address20" \in features) =>
                  IsSuiClass(t) /\ ~HasAptosText(t)
            /\ (m >= 1 /\ features = {"address32"}) =>
                  IsAptosClass(t) /\ ~HasSuiText(t)

\* C4, a step leaves the payload-args type and the builder of a function as
\* they were, whatever the features become
C4_PerFunctionOutputKept ==
    /\ (payload_out.fn # 0 /\ payload_out'.fn = payload_out.fn) =>
          payload_out'.res = payload_out.res
    /\ (builder_out.fn # 0 /\ builder_out'.fn = builder_out.fn) =>
          builder_out'.res = builder_out.res

(***************************************************************************)
(* C4, amended.  For a module with at least one script function: with      *)
(* address20 selected (also when address32 is selected too) the wrapper    *)
(* text is the Sui class and holds nothing of the Aptos class; with        *)
(* address32 alone it is the Aptos class and holds nothing of the Sui      *)
(* class; with neither it is empty.  For a module without script functions *)
(* it is empty under every selector.  The payload-args type and the        *)
(* builder of a function are the same under every selector.                *)
(***************************************************************************)
C4_Amended == [](C4_WrapperBySelector) /\ [][C4_PerFunctionOutputKept]_vars

\* the Aptos class was emitted for a module with functions, and the builder of
\* one of them exists
C4_Witness ==
    /\ module_out.fn # 0
    /\ features = {"address32"}
    /\ Len(module.script_functions) >= 1
    /\ IsAptosClass(module_out.res.text)
    /\ builder_out.fn # 0 /\ builder_out.res.ok

(***************************************************************************)
(* C6.  If the type generator or the serializer fails for one argument of  *)
(* a script function, then the payload-args type generation, the entry     *)
(* payload type generation and the builder generation of that function     *)
(* each return an error and no text.                                       *)
(***************************************************************************)
C6_FailurePropagates ==
    \A out \in {payload_out, entry_out, builder_out} :
        (out.fn # 0 /\ HasUnresolvable(IdlFn(out))) =>
            /\ ~out.res.ok
            /\ out.res.text = <<>>
            /\ out.res.err # <<>>

\* the three generators failed on a function whose first argument resolves and
\* whose second does not
C6_Witness ==
    /\ payload_out.fn # 0 /\ ~payload_out.res.ok
    /\ entry_out.fn = payload_out.fn /\ ~entry_out.res.ok
    /\ builder_out.fn = payload_out.fn /\ ~builder_out.res.ok
    /\ Len(IdlFn(payload_out).args) = 2
    /\ ~Unresolvable(IdlFn(payload_out).args[1])
    /\ Unresolvable(IdlFn(payload_out).args[2])

(***************************************************************************)
(* C7.  When a generator fails on a script function because of an argument *)
(* of unresolvable type, the error it returns holds the function's name    *)
(* and the offending argument's name.                                      *)
(***************************************************************************)
C7_ErrorNamesFunctionAndArgument ==
    \A out \in {payload_out, entry_out, builder_out} :
        (out.fn # 0 /\ ~out.res.ok) =>
            LET f == IdlFn(out)
                bad == CHOOSE i \in 1..Len(f.args) :
                           /\ Unresolvable(f.args[i])
                           /\ \A j \in 1..(i - 1) : ~Unresolvable(f.args[j])
            IN  /\ Has(out.res.err, f.name)
                /\ Has(out.res.err, f.args[bad].name)

(***************************************************************************)
(* C8.  An emitted wrapper class has exactly one method per script         *)
(* function, in the list's order; the i-th is named by the lower camel     *)
(* case of the i-th function's name, calls the builder of that function    *)
(* and hands its result to the environment's submission call.              *)
(***************************************************************************)
C8_OneMethodPerFunction ==
    (module_out.fn # 0 /\ module_out.res.text # <<>>) =>
        LET t == module_out.res.text
            fs == module.script_functions
        IN  /\ Following(t, MethodOpens)
                   = [i \in 1..Len(fs) |-> to_lower_camel_case(fs[i].name)]
            /\ Following(t, {AptosMethodSend, SuiMethodPayload})
                   = [i \in 1..Len(fs) |-> fs[i].name]
            /\ \A i \in 1..Len(fs) :
                  LET piece == Piece(t, MethodOpens, i)
                      builder == ScriptFunctionType_generate_typescript(script_fns[i])
                      called == Following(piece, {AptosMethodSend, SuiMethodPayload})
                  IN  /\ builder.ok => BuilderName(builder.text) = called
                      /\ \/ /\ piece[1] = AptosMethodOpen
                            /\ Count(piece, AptosMethodSend) = 1
                            /\ Count(piece, AptosMethodClose) = 1
                         \/ /\ piece[1] = SuiMethodOpen
                            /\ Count(piece, SuiMethodPayload) = 1
                            /\ Following(piece, {SuiMethodExecute}) = <<fs[i].name>>
                            /\ Count(piece, SuiMethodClose) = 1

\* a Sui class emitted for two functions of different names
C8_Witness ==
    /\ module_out.fn # 0
    /\ features = {"address20"}
    /\ Len(module.script_functions) = 2
    /\ module.script_functions[1].name = "transfer"
    /\ module.script_functions[2].name = "swap_coins"
    /\ Following(module_out.res.text, MethodOpens) = <<"transfer", "swapCoins">>

(***************************************************************************)
(* C9.  As claimed: the IDL's doc string of a function is in the docs of   *)
(* its payload-args type, whenever that type is emitted, and in the docs   *)
(* of its builder; without a doc string the builder has no docs.  This     *)
(* fails for the payload-args type.                                        *)
(***************************************************************************)
C9_Original ==
    /\ (/\ payload_out.fn # 0 /\ payload_out.res.ok
        /\ should_render_payload_struct(script_fns[payload_out.fn])
        /\ IdlFn(payload_out).doc # <<>>) =>
          Has(Before(payload_out.res.text, "export type "), IdlFn(payload_out).doc[1])
    /\ (builder_out.fn # 0 /\ builder_out.res.ok /\ IdlFn(builder_out).doc # <<>>) =>
          Has(Before(builder_out.res.text, "export const "), IdlFn(builder_out).doc[1])
    /\ (builder_out.fn # 0 /\ builder_out.res.ok /\ IdlFn(builder_out).doc = <<>>) =>
          Before(builder_out.res.text, "export const ") = <<>>

(***************************************************************************)
(* C9, amended.  The IDL's doc string of a function is in the docs of its  *)
(* entry payload type and in the docs of its builder; the docs of its      *)
(* payload-args type are the sentence "Payload arguments for {@link        *)
(* entry.<name>}." and do not hold the doc string.  Without a doc string   *)
(* the builder has no docs and the entry payload type's docs hold only     *)
(* its own sentence.                                                       *)
(***************************************************************************)
C9_Amended ==
    /\ (entry_out.fn # 0 /\ entry_out.res.ok) =>
          LET f == IdlFn(entry_out)
              docs == Before(entry_out.res.text, "export type ")
          IN  /\ Head(docs) = "/**"
              /\ Has(docs, "Script function payload for ")
              /\ Has(docs, DocString) <=> f.doc = <<DocString>>
    /\ (builder_out.fn # 0 /\ builder_out.res.ok) =>
          LET f == IdlFn(builder_out)
              docs == Before(builder_out.res.text, "export const ")
          IN  /\ f.doc # <<>> => Head(docs) = "/**" /\ Has(docs, f.doc[1])
              /\ f.doc = <<>> => docs = <<>>
    /\ (payload_out.fn # 0 /\ payload_out.res.ok) =>
          LET f == IdlFn(payload_out)
              docs == Before(payload_out.res.text, "export type ")
          IN  /\ SelectSeq(docs, LAMBDA tok : tok \notin {"/**", "\n", " * ", " */"})
                     = <<"Payload arguments for ", "{@link entry.", f.name, "}", ".">>
              /\ ~Has(payload_out.res.text, DocString)

\* the three texts of one function that has a doc string and a payload-args type
C9_Witness ==
    /\ payload_out.fn # 0 /\ payload_out.res.ok
    /\ entry_out.fn = payload_out.fn /\ entry_out.res.ok
    /\ builder_out.fn = payload_out.fn /\ builder_out.res.ok
    /\ IdlFn(payload_out).doc = <<DocString>>
    /\ should_render_payload_struct(script_fns[payload_out.fn])
    /\ Has(entry_out.res.text, DocString)

(***************************************************************************)
(* C10.  In an emitted wrapper class, the method of a function names the   *)
(* payload-args type mod.<Name>Args only when should_render_payload_struct *)
(* holds for the function, and calls the function's builder with as many   *)
(* arguments as the builder declares parameters.                           *)
(***************************************************************************)
C10_WrapperMatchesBuilder ==
    (module_out.fn # 0 /\ module_out.res.text # <<>>) =>
        \A i \in 1..Len(module.script_functions) :
            LET piece == Piece(module_out.res.text, MethodOpens, i)
                builder == ScriptFunctionType_generate_typescript(script_fns[i])
                call == After(piece, IF piece[1] = AptosMethodOpen
                                     THEN AptosMethodSend ELSE SuiMethodPayload)
            IN  /\ Has(piece, "args: mod.") =>
                      should_render_payload_struct(script_fns[i])
                /\ builder.ok =>
                      Count(call, "args")
                          = Count(BuilderParams(builder.text), " }: mod.")

=============================================================================
